---- MODULE Spec2Model ----
(***************************************************************************)
(* Model of the CRM GraphQL mutations of crm/schema.py (CreateCustomer,    *)
(* BulkCreateCustomers, CreateProduct, CreateOrder) over the relational    *)
(* store they share.  Tables are sequences of rows in insertion order; a   *)
(* row's id is its position (ids are store-assigned and rows are never     *)
(* deleted).  Text that the code inspects character by character (the      *)
(* phone) is a sequence of one-character strings.  An optional argument is *)
(* a set: {} when the argument is absent (None), {v} when it is given.     *)
(***************************************************************************)
EXTENDS Integers, Sequences, FiniteSets, TLC

VARIABLES
    customers,  \* the Customer table
    products,   \* the Product table
    orders,     \* the Order table, each row with its set of product ids
    request,    \* the mutation last served, with its arguments
    result,     \* what that mutation returned or raised
    running,    \* per request handler: where a mutation running concurrently is
    served      \* how many concurrent requests have been started

vars == <<customers, products, orders, request, result, running, served>>

(* ------------------------------ bounds -------------------------------- *)
MaxCustomers == 5
MaxBatch == 3
MaxProducts == 3
MaxOrders == 1
MaxIds == 3
MaxRequests == 3

(* ------------------------------ inputs -------------------------------- *)
None == {}
Some(v) == {v}

Names == {"", "A"}
Emails == {"a@x.com", "b@x.com"}

PhonePlus == <<"+", "1", "2", "3", "4", "5", "6", "7", "8", "9", "0">>
PhoneDashed == <<"1", "2", "3", "-", "4", "5", "6", "-", "7", "8", "9", "0">>
PhoneAbc == <<"a", "b", "c">>
PhoneShort == <<"1", "2", "3", "4", "5", "6">>
PhoneNewline == <<"1", "2", "3", "4", "5", "6", "7", "\n">>

Phones ==
    {None, Some(<<>>), Some(PhonePlus), Some(PhoneDashed), Some(PhoneAbc),
     Some(PhoneShort), Some(PhoneNewline)}

CustomerInput(name, email, phone) == [name |-> name, email |-> email, phone |-> phone]

\* the arguments of a createCustomer request: every name without a phone,
\* every phone with a name
CustomerInputs ==
    {CustomerInput(name, email, None) : name \in Names, email \in Emails}
        \cup {CustomerInput("A", email, phone) : email \in Emails, phone \in Phones}

\* the items a bulk request is built from: a first use of an email, an empty
\* name, and a second use of the first email with a malformed phone
BulkItems ==
    {CustomerInput("A", "a@x.com", None),
     CustomerInput("", "b@x.com", None),
     CustomerInput("C", "a@x.com", Some(PhoneAbc))}

Batches == UNION {[1..n -> BulkItems] : n \in 0..MaxBatch}

\* createProduct: price is a Float, stock an optional Int
Prices == {-5, 0, 500, 1000}
Stocks == {None, Some(-1), Some(0), Some(5)}

\* createOrder: ids that resolve in a seeded store, and one that does not
CustomerIds == {1, 3}
ProductIds == {1, 2, 3}
ProductIdLists == UNION {[1..n -> ProductIds] : n \in 0..MaxIds}
OrderDates == {None, Some("2024-01-01")}
Now == "now"

\* the request handlers that may run at the same time
Procs == {1, 2}
Idle == [pc |-> "idle"]

(* --------------------------- error messages --------------------------- *)
NoError == <<>>
EmailTaken == <<"Email already exists">>
InvalidPhone == <<"Invalid phone format">>
BulkEmailTaken(email) == <<"Email ", email, " already exists">>
InvalidPrice == <<"Price must be positive">>
InvalidStock == <<"Stock cannot be negative">>
InvalidCustomer == <<"Invalid customer ID">>
NoProductsSelected == <<"At least one product must be selected">>
InvalidProductIds == <<"Invalid product IDs">>

(* ------------------------------ the store ----------------------------- *)
\* Customer.objects.create(name=, email=, phone=): appends a row, id assigned
CustomerCreate(store, name, email, phone) ==
    Append(store, [id |-> Len(store) + 1, name |-> name, email |-> email, phone |-> phone])

\* Product.objects.create(name=, price=, stock=)
ProductCreate(store, name, price, stock) ==
    Append(store, [id |-> Len(store) + 1, name |-> name, price |-> price, stock |-> stock])

\* Customer.objects.get(id=customer_id) finds a row (no Customer.DoesNotExist)
CustomerFound(store, customer_id) == \E i \in DOMAIN store : store[i].id = customer_id

Range(s) == {s[i] : i \in DOMAIN s}

\* Product.objects.filter(id__in=product_ids): the ids of the rows it selects
ProductsFilter(store, product_ids) == {id \in DOMAIN store : id \in Range(product_ids)}

\* variant: the strict policy, every requested id must have a row
AnyMissing(store, product_ids) == \E id \in Range(product_ids) : id \notin DOMAIN store

\* not products.exists()
NoneResolves(store, product_ids) == ProductsFilter(store, product_ids) = {}

RECURSIVE SumOfPrices(_, _)
SumOfPrices(store, ids) ==
    IF ids = {} THEN 0
    ELSE LET id == CHOOSE x \in ids : TRUE
         IN  store[id].price + SumOfPrices(store, ids \ {id})

\* Order.calculate_total(): total_amount becomes the sum of the prices of the
\* order's products
CalculateTotal(store, order) == [order EXCEPT !.total_amount = SumOfPrices(store, order.products)]

\* Order.objects.create(customer=, order_date=): a row with no products yet
OrderCreate(store, customer, order_date) ==
    Append(store, [id |-> Len(store) + 1, customer |-> customer, products |-> {},
                   total_amount |-> 0, order_date |-> order_date])

\* order.products.set(products)
ProductsSet(order, ids) == [order EXCEPT !.products = ids]

\* order.save()
OrderSave(store, order) == [store EXCEPT ![order.id] = order]

\* the rows seed() of seed_db.py inserts
SeedCustomers ==
    <<[id |-> 1, name |-> "Alice", email |-> "alice@example.com", phone |-> Some(PhonePlus)],
      [id |-> 2, name |-> "Bob", email |-> "bob@example.com", phone |-> Some(PhoneDashed)]>>
SeedProducts ==
    <<[id |-> 1, name |-> "Laptop", price |-> 1000, stock |-> 5],
      [id |-> 2, name |-> "Phone", price |-> 500, stock |-> 10]>>

\* variant: the query misses every row
EmailExistsNever(store, email) == FALSE

\* Customer.objects.filter(email=email).exists()
EmailExists(store, email) == \E i \in DOMAIN store : store[i].email = email

(* ---------------------------- phone format ---------------------------- *)
Digits == {"0", "1", "2", "3", "4", "5", "6", "7", "8", "9"}
MinPhoneDigits == 7
MaxPhoneDigits == 15

IsDigits(s) == \A i \in DOMAIN s : s[i] \in Digits

\* \+?\d{7,15}
International(s) ==
    LET body == IF Len(s) > 0 /\ s[1] = "+" THEN Tail(s) ELSE s
    IN  Len(body) >= MinPhoneDigits /\ Len(body) <= MaxPhoneDigits /\ IsDigits(body)

\* \d{3}-\d{3}-\d{4}
NorthAmerican(s) ==
    /\ Len(s) = 12
    /\ s[4] = "-" /\ s[8] = "-"
    /\ \A i \in (1..12) \ {4, 8} : s[i] \in Digits

\* re.match(r'^(\+?\d{7,15}|\d{3}-\d{3}-\d{4})$', phone): $ matches at the end
\* of the string and also just before a newline that ends it
PhoneMatches(s) ==
    LET t == IF Len(s) > 0 /\ s[Len(s)] = "\n" THEN SubSeq(s, 1, Len(s) - 1) ELSE s
    IN  International(t) \/ NorthAmerican(t)

\* not (phone and not re.match(...)): None and "" are falsy
PhoneAccepted(phone) == \A s \in phone : s = <<>> \/ PhoneMatches(s)

(* ----------------------------- CreateCustomer ------------------------- *)
CreateCustomer(name, email, phone) ==
    /\ Len(customers) < MaxCustomers
    /\ request' = [op |-> "createCustomer", name |-> name, email |-> email, phone |-> phone]
    /\ IF EmailExists(customers, email)
       THEN /\ result' = [error |-> EmailTaken]
            /\ UNCHANGED customers
       ELSE IF ~PhoneAccepted(phone)
       THEN /\ result' = [error |-> InvalidPhone]
            /\ UNCHANGED customers
       ELSE /\ customers' = CustomerCreate(customers, name, email, phone)
            /\ result' = [error |-> NoError,
                          customer |-> Len(customers) + 1,
                          message |-> "Customer created successfully"]
    /\ UNCHANGED <<products, orders, running, served>>

(* --------------------------- BulkCreateCustomers ---------------------- *)
\* variant: after the first failing item nothing more is created, and only
\* the last error is kept
BulkItemAborting(st, c) ==
    IF EmailExists(st.store, c.email) \/ st.errors # <<>>
    THEN [st EXCEPT !.errors = <<BulkEmailTaken(c.email)>>]
    ELSE [st EXCEPT !.store = CustomerCreate(@, c.name, c.email, c.phone),
                    !.created = Append(@, Len(st.store) + 1)]

\* one iteration of the for loop over one item c, on the loop state
\* st = [store, created, errors]; the store's create raises nothing, so the
\* except branch of the try is never taken
BulkItem(st, c) ==
    IF EmailExists(st.store, c.email)
    THEN [st EXCEPT !.errors = Append(@, BulkEmailTaken(c.email))]
    ELSE [st EXCEPT !.store = CustomerCreate(@, c.name, c.email, c.phone),
                    !.created = Append(@, Len(st.store) + 1)]

RECURSIVE BulkLoop(_, _)
BulkLoop(st, items) ==
    IF items = <<>> THEN st
    ELSE BulkLoop(BulkItem(st, Head(items)), Tail(items))

BulkRun(store, items) ==
    BulkLoop([store |-> store, created |-> <<>>, errors |-> <<>>], items)

\* the whole mutation runs in one transaction (transaction.atomic), which
\* commits when mutate returns
BulkCreateCustomers(items) ==
    /\ Len(customers) + Len(items) <= MaxCustomers
    /\ request' = [op |-> "bulkCreateCustomers", customers |-> items]
    /\ LET out == BulkRun(customers, items)
       IN  /\ customers' = out.store
           /\ result' = [error |-> NoError,
                         customers |-> out.created, errors |-> out.errors]
    /\ UNCHANGED <<products, orders, running, served>>

(* ------------------------------ CreateProduct ------------------------- *)
\* stock=0 when the argument is omitted
StockOrDefault(stock) == IF stock = None THEN 0 ELSE CHOOSE v \in stock : TRUE

\* variant: price < 0 in place of price <= 0
CreateProductZeroPrice(name, price, stock) ==
    /\ Len(products) < MaxProducts
    /\ request' = [op |-> "createProduct", name |-> name, price |-> price, stock |-> stock]
    /\ IF price < 0
       THEN /\ result' = [error |-> InvalidPrice]
            /\ UNCHANGED products
       ELSE IF StockOrDefault(stock) < 0
       THEN /\ result' = [error |-> InvalidStock]
            /\ UNCHANGED products
       ELSE /\ products' = ProductCreate(products, name, price, StockOrDefault(stock))
            /\ result' = [error |-> NoError, product |-> Len(products) + 1]
    /\ UNCHANGED <<customers, orders, running, served>>

CreateProduct(name, price, stock) ==
    /\ Len(products) < MaxProducts
    /\ request' = [op |-> "createProduct", name |-> name, price |-> price, stock |-> stock]
    /\ IF price <= 0
       THEN /\ result' = [error |-> InvalidPrice]
            /\ UNCHANGED products
       ELSE IF StockOrDefault(stock) < 0
       THEN /\ result' = [error |-> InvalidStock]
            /\ UNCHANGED products
       ELSE /\ products' = ProductCreate(products, name, price, StockOrDefault(stock))
            /\ result' = [error |-> NoError, product |-> Len(products) + 1]
    /\ UNCHANGED <<customers, orders, running, served>>

(* ------------------------------- CreateOrder -------------------------- *)
\* order_date or timezone.now()
DateOrNow(order_date) == IF order_date = None THEN Now ELSE CHOOSE d \in order_date : TRUE

\* variant: the total counts a product once per occurrence of its id
RECURSIVE SumPerRequestedId(_, _)
SumPerRequestedId(store, product_ids) ==
    IF product_ids = <<>> THEN 0
    ELSE (IF Head(product_ids) \in DOMAIN store THEN store[Head(product_ids)].price ELSE 0)
         + SumPerRequestedId(store, Tail(product_ids))

OrderPersistedPerId(store, customer_id, product_ids, order_date) ==
    Append(store, [id |-> Len(store) + 1, customer |-> customer_id,
                   products |-> ProductsFilter(products, product_ids),
                   total_amount |-> SumPerRequestedId(products, product_ids),
                   order_date |-> DateOrNow(order_date)])

\* the order row after create, products.set, calculate_total and save
OrderPersisted(store, customer_id, product_ids, order_date) ==
    LET created == OrderCreate(store, customer_id, DateOrNow(order_date))
        row == created[Len(created)]
        withProducts == ProductsSet(row, ProductsFilter(products, product_ids))
    IN  OrderSave(created, CalculateTotal(products, withProducts))

\* variant: the order row is created before product_ids is checked
CreateOrderRowFirst(customer_id, product_ids, order_date) ==
    /\ Len(orders) < MaxOrders
    /\ request' = [op |-> "createOrder", customer_id |-> customer_id,
                   product_ids |-> product_ids, order_date |-> order_date]
    /\ IF ~CustomerFound(customers, customer_id)
       THEN /\ result' = [error |-> InvalidCustomer]
            /\ UNCHANGED orders
       ELSE IF product_ids = <<>>
       THEN /\ result' = [error |-> NoProductsSelected]
            /\ orders' = OrderCreate(orders, customer_id, DateOrNow(order_date))
       ELSE IF NoneResolves(products, product_ids)
       THEN /\ result' = [error |-> InvalidProductIds]
            /\ orders' = OrderCreate(orders, customer_id, DateOrNow(order_date))
       ELSE /\ orders' = OrderPersisted(orders, customer_id, product_ids, order_date)
            /\ result' = [error |-> NoError, order |-> Len(orders) + 1]
    /\ UNCHANGED <<customers, products, running, served>>

CreateOrder(customer_id, product_ids, order_date) ==
    /\ Len(orders) < MaxOrders
    /\ request' = [op |-> "createOrder", customer_id |-> customer_id,
                   product_ids |-> product_ids, order_date |-> order_date]
    /\ IF ~CustomerFound(customers, customer_id)
       THEN /\ result' = [error |-> InvalidCustomer]
            /\ UNCHANGED orders
       ELSE IF product_ids = <<>>
       THEN /\ result' = [error |-> NoProductsSelected]
            /\ UNCHANGED orders
       ELSE IF NoneResolves(products, product_ids)
       THEN /\ result' = [error |-> InvalidProductIds]
            /\ UNCHANGED orders
       ELSE /\ orders' = OrderPersisted(orders, customer_id, product_ids, order_date)
            /\ result' = [error |-> NoError, order |-> Len(orders) + 1]
    /\ UNCHANGED <<customers, products, running, served>>

(* ------------------------------ behaviours ---------------------------- *)
Init ==
    /\ customers = <<>>
    /\ products = <<>>
    /\ orders = <<>>
    /\ request = [op |-> "none"]
    /\ result = [error |-> NoError]
    /\ running = [p \in Procs |-> Idle]
    /\ served = 0

NextCustomer ==
    \/ \E c \in CustomerInputs : CreateCustomer(c.name, c.email, c.phone)
    \/ \E items \in Batches : BulkCreateCustomers(items)

SpecCustomer == Init /\ [][NextCustomer]_vars

NextProduct ==
    \E price \in Prices, stock \in Stocks : CreateProduct("X", price, stock)

SpecProduct == Init /\ [][NextProduct]_vars

\* the store after seed() of seed_db.py has run on the empty database
InitSeeded ==
    /\ customers = SeedCustomers
    /\ products = SeedProducts
    /\ orders = <<>>
    /\ request = [op |-> "none"]
    /\ result = [error |-> NoError]
    /\ running = [p \in Procs |-> Idle]
    /\ served = 0

NextOrder ==
    \E customer_id \in CustomerIds, product_ids \in ProductIdLists, order_date \in OrderDates :
        CreateOrder(customer_id, product_ids, order_date)

SpecOrder == InitSeeded /\ [][NextOrder]_vars

\* The four mutations, one request at a time.  The customer mutations write
\* the Customer table alone, createProduct the Product table alone and
\* createOrder the Order table alone, so what a service does is explored
\* under the specification of that service.
Next == NextCustomer \/ NextProduct \/ NextOrder

Spec == Init /\ [][Next]_vars

(* ----------------------- concurrent request handling ------------------ *)
\* Each statement a mutation sends to the store is one step; the steps of
\* requests handled at the same time interleave.  Outside transaction.atomic
\* every statement commits by itself.  Rows written inside the transaction of
\* BulkCreateCustomers are seen by that request alone until it commits.
Pending(q) == IF running[q].pc \in {"bulk:exists", "bulk:create"} THEN running[q].pending ELSE {}

VisibleCustomers(p) ==
    SelectSeq(customers, LAMBDA r : \A q \in Procs \ {p} : r.id \notin Pending(q))

CommittedCustomers ==
    SelectSeq(customers, LAMBDA r : \A q \in Procs : r.id \notin Pending(q))

Goto(p, state) == running' = [running EXCEPT ![p] = state]

\* CreateCustomer.mutate, line 47: the exists() query
CustomerExistsStep(p, name, email, phone) ==
    /\ running[p].pc = "idle"
    /\ served < MaxRequests
    /\ served' = served + 1
    /\ Goto(p, [pc |-> "createCustomer:create", name |-> name, email |-> email,
                phone |-> phone, exists |-> EmailExists(VisibleCustomers(p), email)])
    /\ UNCHANGED <<customers, products, orders, request, result>>

\* CreateCustomer.mutate, lines 48-54: raise, or the INSERT
CustomerCreateStep(p) ==
    /\ running[p].pc = "createCustomer:create"
    /\ IF running[p].exists \/ ~PhoneAccepted(running[p].phone)
       THEN UNCHANGED customers
       ELSE customers' = CustomerCreate(customers, running[p].name, running[p].email,
                                        running[p].phone)
    /\ Goto(p, Idle)
    /\ UNCHANGED <<products, orders, request, result, served>>

\* BulkCreateCustomers.mutate: the transaction begins
BulkBeginStep(p, items) ==
    /\ running[p].pc = "idle"
    /\ served < MaxRequests
    /\ served' = served + 1
    /\ Goto(p, [pc |-> "bulk:exists", rest |-> items, created |-> <<>>,
                errors |-> <<>>, pending |-> {}])
    /\ UNCHANGED <<customers, products, orders, request, result>>

\* line 78-80: the exists() query for the next item
BulkExistsStep(p) ==
    /\ running[p].pc = "bulk:exists"
    /\ running[p].rest # <<>>
    /\ LET c == Head(running[p].rest)
       IN  IF EmailExists(VisibleCustomers(p), c.email)
           THEN Goto(p, [running[p] EXCEPT !.errors = Append(@, BulkEmailTaken(c.email)),
                                           !.rest = Tail(@)])
           ELSE Goto(p, [running[p] EXCEPT !.pc = "bulk:create"])
    /\ UNCHANGED <<customers, products, orders, request, result, served>>

\* line 81-82: the INSERT for the item, not yet committed
BulkCreateStep(p) ==
    /\ running[p].pc = "bulk:create"
    /\ LET c == Head(running[p].rest)
           id == Len(customers) + 1
       IN  /\ customers' = CustomerCreate(customers, c.name, c.email, c.phone)
           /\ Goto(p, [running[p] EXCEPT !.pc = "bulk:exists",
                                         !.created = Append(@, id),
                                         !.pending = @ \cup {id},
                                         !.rest = Tail(@)])
    /\ UNCHANGED <<products, orders, request, result, served>>

\* line 86: mutate returns and the transaction commits
BulkCommitStep(p) ==
    /\ running[p].pc = "bulk:exists"
    /\ running[p].rest = <<>>
    /\ Goto(p, Idle)
    /\ UNCHANGED <<customers, products, orders, request, result, served>>

\* CreateOrder.mutate, lines 116-122: the customer lookup and the empty-list check
OrderGetCustomerStep(p, customer_id, product_ids, order_date) ==
    /\ running[p].pc = "idle"
    /\ served < MaxRequests
    /\ served' = served + 1
    /\ IF ~CustomerFound(VisibleCustomers(p), customer_id) \/ product_ids = <<>>
       THEN Goto(p, Idle)
       ELSE Goto(p, [pc |-> "createOrder:exists", customer_id |-> customer_id,
                     product_ids |-> product_ids, order_date |-> order_date,
                     order |-> 0, total_amount |-> 0])
    /\ UNCHANGED <<customers, products, orders, request, result>>

\* lines 124-126: products.exists()
OrderProductsExistStep(p) ==
    /\ running[p].pc = "createOrder:exists"
    /\ IF NoneResolves(products, running[p].product_ids)
       THEN Goto(p, Idle)
       ELSE Goto(p, [running[p] EXCEPT !.pc = "createOrder:create"])
    /\ UNCHANGED <<customers, products, orders, request, result, served>>

\* lines 128-131: Order.objects.create, the INSERT of the order row
OrderCreateStep(p) ==
    /\ running[p].pc = "createOrder:create"
    /\ orders' = OrderCreate(orders, running[p].customer_id, DateOrNow(running[p].order_date))
    /\ Goto(p, [running[p] EXCEPT !.pc = "createOrder:set", !.order = Len(orders) + 1])
    /\ UNCHANGED <<customers, products, request, result, served>>

\* line 132: order.products.set(products); the lazy queryset is evaluated now
OrderSetProductsStep(p) ==
    /\ running[p].pc = "createOrder:set"
    /\ LET id == running[p].order
       IN  orders' = OrderSave(orders,
               ProductsSet(orders[id], ProductsFilter(products, running[p].product_ids)))
    /\ Goto(p, [running[p] EXCEPT !.pc = "createOrder:total"])
    /\ UNCHANGED <<customers, products, request, result, served>>

\* line 133: order.calculate_total(), on the handler's copy of the row
OrderCalculateTotalStep(p) ==
    /\ running[p].pc = "createOrder:total"
    /\ Goto(p, [running[p] EXCEPT !.pc = "createOrder:save",
                   !.total_amount = CalculateTotal(products, orders[running[p].order]).total_amount])
    /\ UNCHANGED <<customers, products, orders, request, result, served>>

\* line 134: order.save()
OrderSaveStep(p) ==
    /\ running[p].pc = "createOrder:save"
    /\ LET id == running[p].order
       IN  orders' = OrderSave(orders,
               [orders[id] EXCEPT !.total_amount = running[p].total_amount])
    /\ Goto(p, Idle)
    /\ UNCHANGED <<customers, products, request, result, served>>

ConcCustomerInputs ==
    {CustomerInput("A", "a@x.com", None), CustomerInput("C", "a@x.com", Some(PhoneAbc))}
ConcBatches == UNION {[1..n -> ConcCustomerInputs] : n \in 0..2}
ConcProductIdLists == {<<>>, <<3>>, <<1>>, <<1, 2>>}

NextConcurrent ==
    \E p \in Procs :
        \/ \E c \in ConcCustomerInputs : CustomerExistsStep(p, c.name, c.email, c.phone)
        \/ CustomerCreateStep(p)
        \/ \E items \in ConcBatches : BulkBeginStep(p, items)
        \/ BulkExistsStep(p)
        \/ BulkCreateStep(p)
        \/ BulkCommitStep(p)
        \/ \E customer_id \in CustomerIds, product_ids \in ConcProductIdLists :
               OrderGetCustomerStep(p, customer_id, product_ids, None)
        \/ OrderProductsExistStep(p)
        \/ OrderCreateStep(p)
        \/ OrderSetProductsStep(p)
        \/ OrderCalculateTotalStep(p)
        \/ OrderSaveStep(p)

SpecConcurrent == InitSeeded /\ [][NextConcurrent]_vars

(* ======================= claims: customer service ===================== *)
SameEmail(store, email) == \E i \in DOMAIN store : store[i].email = email

NoTwoCustomersShareAnEmail ==
    \A i, j \in DOMAIN customers :
        i # j => customers[i].email # customers[j].email

DuplicateEmailRejected ==
    (request'.op = "createCustomer" /\ SameEmail(customers, request'.email))
        => (customers' = customers /\ result'.error = EmailTaken)

\* C1: with the mutations run one at a time, no two customers in the store
\* share an email, and a createCustomer whose email is that of an existing
\* customer fails with "Email already exists" and leaves the customers unchanged.
C1_UniqueEmailSequential ==
    [](NoTwoCustomersShareAnEmail) /\ [][DuplicateEmailRejected]_vars

C1_Witness ==
    /\ request.op = "createCustomer"
    /\ result.error = EmailTaken
    /\ SameEmail(customers, request.email)
    /\ Len(customers) = 2

\* what CreateCustomer.mutate requires of an input to persist it
CreateCustomerWouldSucceed(store, c) ==
    /\ ~SameEmail(store, c.email)
    /\ PhoneAccepted(c.phone)

RECURSIVE CreatedBySameChecks(_, _)
\* the store after the items, each created iff createCustomer would create it
CreatedBySameChecks(store, items) ==
    IF items = <<>> THEN store
    ELSE LET c == Head(items)
         IN  CreatedBySameChecks(
                 IF CreateCustomerWouldSucceed(store, c)
                 THEN Append(store, [id |-> Len(store) + 1, name |-> c.name,
                                     email |-> c.email, phone |-> c.phone])
                 ELSE store,
                 Tail(items))

\* C5: in a bulk request an item is created if and only if createCustomer with
\* the same name, email and phone would succeed against the store as it is
\* when the item is reached (earlier items of the batch included).
C5_BulkRunsSameChecks ==
    [][request'.op = "bulkCreateCustomers"
          => customers' = CreatedBySameChecks(customers, request'.customers)]_vars

RECURSIVE IsSubsequence(_, _)
IsSubsequence(s, t) ==
    IF s = <<>> THEN TRUE
    ELSE IF t = <<>> THEN FALSE
    ELSE IF Head(s) = Head(t) THEN IsSubsequence(Tail(s), Tail(t))
    ELSE IsSubsequence(s, Tail(t))

AsInput(row) == CustomerInput(row.name, row.email, row.phone)

BulkNeverAborts ==
    LET items == request'.customers
        created == result'.customers
        errs == result'.errors
    IN  /\ Len(created) + Len(errs) = Len(items)
        /\ Len(customers') = Len(customers) + Len(created)
        /\ SubSeq(customers', 1, Len(customers)) = customers
        /\ \A j \in DOMAIN created : created[j] = Len(customers) + j
        /\ IsSubsequence([j \in DOMAIN created |-> AsInput(customers'[created[j]])], items)
        /\ \A k \in DOMAIN items : SameEmail(customers', items[k].email)

\* C6: a bulk request never aborts on a failing item: every item gives exactly
\* one outcome (a created customer or an error string), the created customers
\* stay in the store after the call, in the order of their items, and an item
\* after a failing one is still attempted.
C6_BulkNeverAborts ==
    [][request'.op = "bulkCreateCustomers" => BulkNeverAborts]_vars

C6_Witness ==
    /\ request.op = "bulkCreateCustomers"
    /\ request.customers = <<CustomerInput("A", "a@x.com", None),
                             CustomerInput("C", "a@x.com", Some(PhoneAbc)),
                             CustomerInput("", "b@x.com", None)>>
    /\ result.customers = <<1, 2>>
    /\ result.errors = <<BulkEmailTaken("a@x.com")>>
    /\ customers[2].email = "b@x.com"

MissingField == <<"Missing required field">>

\* C8: createCustomer checks the required fields, then the uniqueness of the
\* email, then the phone format, and stops at the first failure; a customer is
\* persisted only when the three checks pass, and a failure leaves the store
\* unchanged.
C8_CreateCustomerCheckOrder ==
    [][request'.op = "createCustomer" =>
          LET name == request'.name
              email == request'.email
              phone == request'.phone
          IN  IF name = "" \/ email = ""
              THEN result'.error = MissingField /\ customers' = customers
              ELSE IF SameEmail(customers, email)
              THEN result'.error = EmailTaken /\ customers' = customers
              ELSE IF \E s \in phone : s # <<>> /\ ~International(s) /\ ~NorthAmerican(s)
              THEN result'.error = InvalidPhone /\ customers' = customers
              ELSE /\ result'.error = NoError
                   /\ customers' = Append(customers,
                          [id |-> Len(customers) + 1, name |-> name,
                           email |-> email, phone |-> phone])]_vars

(* ======================= claims: product service ====================== *)
ProductsAreValid ==
    \A i \in DOMAIN products :
        products[i].price > 0 /\ products[i].stock \in Nat

CreateProductChecks ==
    request'.op = "createProduct" =>
        LET price == request'.price
            stock == request'.stock
        IN  IF price <= 0
            THEN result'.error = InvalidPrice /\ products' = products
            ELSE IF \E v \in stock : v < 0
            THEN result'.error = InvalidStock /\ products' = products
            ELSE /\ result'.error = NoError
                 /\ Len(products') = Len(products) + 1
                 /\ SubSeq(products', 1, Len(products)) = products
                 /\ products'[Len(products')].price = price
                 /\ products'[Len(products')].stock \in (IF stock = {} THEN {0} ELSE stock)

\* C9: every product in the store has price > 0 and an integer stock >= 0;
\* createProduct checks the price first, then the stock, persists nothing when
\* it fails, and stores stock 0 when the stock is omitted.
C9_ProductBounds ==
    [](ProductsAreValid) /\ [][CreateProductChecks]_vars

C9_Witness ==
    /\ request.op = "createProduct"
    /\ request.price = 1000
    /\ request.stock = None
    /\ result.error = NoError
    /\ products[result.product].stock = 0
    /\ Len(products) = 3

(* ======================== claims: order service ======================= *)
RequestedAndExisting(store, product_ids) ==
    {id \in 1..Len(store) : \E k \in 1..Len(product_ids) : product_ids[k] = id}

RECURSIVE PriceSum(_, _, _)
\* the sum of the prices of the rows 1..n of the store whose id is in ids
PriceSum(store, ids, n) ==
    IF n = 0 THEN 0
    ELSE (IF n \in ids THEN store[n].price ELSE 0) + PriceSum(store, ids, n - 1)

C4_FailedOrderWritesNothing ==
    [][request'.op = "createOrder" =>
          LET ids == request'.product_ids
              failure ==
                  IF request'.customer_id \notin 1..Len(customers) THEN InvalidCustomer
                  ELSE IF Len(ids) = 0 THEN NoProductsSelected
                  ELSE IF RequestedAndExisting(products, ids) = {} THEN InvalidProductIds
                  ELSE NoError
          IN  /\ result'.error = failure
              /\ failure # NoError =>
                    (orders' = orders /\ customers' = customers /\ products' = products)
              /\ failure = NoError => Len(orders') = Len(orders) + 1]_vars

C4_Witness ==
    /\ request.op = "createOrder"
    /\ request.customer_id = 1
    /\ request.product_ids = <<3, 3>>
    /\ result.error = InvalidProductIds
    /\ orders = <<>>

\* C7 as claimed: an id of product_ids that does not resolve makes createOrder
\* fail with "Invalid product IDs" and no order is created.
C7_StrictResolution ==
    [][(/\ request'.op = "createOrder"
        /\ request'.customer_id \in 1..Len(customers)
        /\ \E k \in 1..Len(request'.product_ids) :
               request'.product_ids[k] \notin 1..Len(products))
          => (result'.error = InvalidProductIds /\ orders' = orders)]_vars

\* C7 as amended: createOrder fails with "Invalid product IDs" exactly when a
\* non-empty product_ids resolves to no product at all; an id that does not
\* resolve beside one that does is ignored, and the persisted order's product
\* set is the non-empty set of the requested ids that exist.
C7_PartialResolution ==
    [][(/\ request'.op = "createOrder"
        /\ request'.customer_id \in 1..Len(customers)
        /\ request'.product_ids # <<>>)
          => LET existing == RequestedAndExisting(products, request'.product_ids)
             IN  IF existing = {}
                 THEN result'.error = InvalidProductIds /\ orders' = orders
                 ELSE /\ result'.error = NoError
                      /\ Len(orders') = Len(orders) + 1
                      /\ orders'[result'.order].products = existing]_vars

C7_Witness ==
    /\ request.op = "createOrder"
    /\ request.product_ids = <<1, 3>>
    /\ result.error = NoError
    /\ orders[result.order].products = {1}

(* ========================= claims: concurrency ======================== *)
\* C2: whatever the steps of the createOrder requests in progress, every
\* order in the store has at least one product and a total_amount equal to
\* the sum of its products' prices.
C2_OrderNeverIncomplete ==
    \A i \in DOMAIN orders :
        /\ orders[i].products # {}
        /\ orders[i].total_amount = PriceSum(products, orders[i].products, Len(products))

\* C10: with requests handled at the same time, no two customers in the
\* store share an email.
C10_UniqueEmailConcurrent ==
    \A i, j \in DOMAIN CommittedCustomers :
        i # j => CommittedCustomers[i].email # CommittedCustomers[j].email

====
